---- MODULE Spec2Model ----
(***************************************************************************)
(* Model of src/app.py: the upload / chat / cleanup request handlers over  *)
(* the two session maps, and the SecureQASystem answering pipeline.        *)
(*                                                                         *)
(* A Python str is a sequence of one-character strings.  A Python value    *)
(* whose type matters to the code (isinstance tests, truthiness) is a      *)
(* record [type, val].                                                     *)
(***************************************************************************)
EXTENDS Integers, Sequences, FiniteSets, TLC

(***************************************************************************)
(* Python values and the str methods the code calls                        *)
(***************************************************************************)
Str(s) == [type |-> "str", val |-> s]

None == [type |-> "NoneType", val |-> <<>>]

\* "not v" for a str or None
Falsy(v) == v.type = "NoneType" \/ (v.type = "str" /\ v.val = <<>>)

SetMin(S) == CHOOSE x \in S : \A y \in S : x <= y

SetMax(S) == CHOOSE x \in S : \A y \in S : x >= y

ToSet(seq) == {seq[i] : i \in 1..Len(seq)}

\* the characters str.strip() and str.split() treat as whitespace
Whitespace == {" ", "\t", "\n", "\r", "\f"}

\* the characters of the class [.!?\n]
SentenceBreaks == {".", "!", "?", "\n"}

UpperCase == <<"A", "B", "C", "D", "E", "F", "G", "H", "I", "J", "K", "L", "M", "N", "O", "P", "Q", "R", "S", "T", "U", "V", "W", "X", "Y", "Z">>

LowerCase == <<"a", "b", "c", "d", "e", "f", "g", "h", "i", "j", "k", "l", "m", "n", "o", "p", "q", "r", "s", "t", "u", "v", "w", "x", "y", "z">>

\* the characters of the model's texts in code point order (str comparison)
CodePointOrder == <<"\t", "\n", " ", "!", "\"", "#", "&", "'", "(", ")", "*", "+", ",", "-", ".", "/", "0", "1", "2", "3", "4", "5", "6", "7", "8", "9", ":", ";", "<", "=", ">", "?", "@", "A", "B", "C", "D", "E", "F", "G", "H", "I", "J", "K", "L", "M", "N", "O", "P", "Q", "R", "S", "T", "U", "V", "W", "X", "Y", "Z", "_", "a", "b", "c", "d", "e", "f", "g", "h", "i", "j", "k", "l", "m", "n", "o", "p", "q", "r", "s", "t", "u", "v", "w", "x", "y", "z">>

Ord(c) == CHOOSE i \in 1..Len(CodePointOrder) : CodePointOrder[i] = c

\* a < b on str
StrLess(a, b) ==
    LET n == IF Len(a) < Len(b) THEN Len(a) ELSE Len(b)
        diff == {i \in 1..n : a[i] # b[i]}
    IN  IF diff = {} THEN Len(a) < Len(b)
        ELSE Ord(a[SetMin(diff)]) < Ord(b[SetMin(diff)])

\* s.strip(chars): s from its first to its last character outside chars
StripChars(s, chars) ==
    LET keep == {i \in 1..Len(s) : s[i] \notin chars}
    IN  IF keep = {} THEN <<>>
        ELSE SubSeq(s, SetMin(keep),
                    CHOOSE i \in keep : \A j \in (i + 1)..Len(s) : s[j] \in chars)

\* s.strip()
Strip(s) == StripChars(s, Whitespace)

LowerOf == [c \in ToSet(UpperCase) |->
               LowerCase[CHOOSE i \in 1..Len(UpperCase) : UpperCase[i] = c]]

LowerChar(c) == IF c \in DOMAIN LowerOf THEN LowerOf[c] ELSE c

\* s.lower()
Lower(s) == SubSeq([i \in 1..Len(s) |-> LowerChar(s[i])], 1, Len(s))

\* s.split(): the maximal runs of non-whitespace, in order
RECURSIVE SplitWhitespace(_)
SplitWhitespace(s) ==
    LET keep == {i \in 1..Len(s) : s[i] \notin Whitespace}
    IN  IF keep = {} THEN <<>>
        ELSE LET b == SetMin(keep)
                 ws == {i \in b..Len(s) : s[i] \in Whitespace}
                 e == IF ws = {} THEN Len(s) ELSE SetMin(ws) - 1
             IN  <<SubSeq(s, b, e)>> \o SplitWhitespace(SubSeq(s, e + 1, Len(s)))

\* re.split(r'[.!?\n]+', s): the pieces between the runs of break characters,
\* an empty piece where s starts or ends with a run
RECURSIVE ReSplit(_)
ReSplit(s) ==
    LET brk == {i \in 1..Len(s) : s[i] \in SentenceBreaks}
    IN  IF brk = {} THEN <<s>>
        ELSE LET b == SetMin(brk)
                 rest == {i \in b..Len(s) : s[i] \notin SentenceBreaks}
                 e == IF rest = {} THEN Len(s) ELSE SetMin(rest) - 1
             IN  <<SubSeq(s, 1, b - 1)>> \o ReSplit(SubSeq(s, e + 1, Len(s)))

\* sub in s
Contains(s, sub) ==
    \E i \in 1..(Len(s) - Len(sub) + 1) : SubSeq(s, i, i + Len(sub) - 1) = sub

MarkupChars == {"&", "<", ">", "'", "\""}

Entity(c) ==
    CASE c = "&" -> <<"&", "a", "m", "p", ";">>
      [] c = "<" -> <<"&", "l", "t", ";">>
      [] c = ">" -> <<"&", "g", "t", ";">>
      [] c = "'" -> <<"&", "#", "3", "9", ";">>
      [] c = "\"" -> <<"&", "#", "3", "4", ";">>

\* markupsafe.escape(s) on a plain str
RECURSIVE escape(_)
escape(s) ==
    LET special == {i \in 1..Len(s) : s[i] \in MarkupChars}
    IN  IF special = {} THEN s
        ELSE LET b == SetMin(special)
             IN  SubSeq(s, 1, b - 1) \o Entity(s[b]) \o escape(SubSeq(s, b + 1, Len(s)))

(***************************************************************************)
(* SecureQASystem                                                          *)
(***************************************************************************)
MAX_CONTEXT_LENGTH == 2000

InvalidInputMsg == <<"I", "n", "v", "a", "l", "i", "d", " ", "i", "n", "p", "u", "t", " ", "p", "r", "o", "v", "i", "d", "e", "d">>

NoRelevantMsg == <<"N", "o", " ", "r", "e", "l", "e", "v", "a", "n", "t", " ", "i", "n", "f", "o", "r", "m", "a", "t", "i", "o", "n", " ", "f", "o", "u", "n", "d", " ", "i", "n", " ", "t", "h", "e", " ", "d", "o", "c", "u", "m", "e", "n", "t">>

PrefixWhat == <<"A", "c", "c", "o", "r", "d", "i", "n", "g", " ", "t", "o", " ", "t", "h", "e", " ", "d", "o", "c", "u", "m", "e", "n", "t", ":", " ">>

PrefixHow == <<"T", "h", "e", " ", "p", "r", "o", "c", "e", "s", "s", " ", "d", "e", "s", "c", "r", "i", "b", "e", "d", " ", "i", "s", ":", " ">>

PrefixWhy == <<"T", "h", "e", " ", "e", "x", "p", "l", "a", "n", "a", "t", "i", "o", "n", " ", "p", "r", "o", "v", "i", "d", "e", "d", " ", "i", "s", ":", " ">>

PrefixWhen == <<"B", "a", "s", "e", "d", " ", "o", "n", " ", "t", "h", "e", " ", "d", "o", "c", "u", "m", "e", "n", "t", ":", " ">>

PrefixOther == <<"F", "r", "o", "m", " ", "t", "h", "e", " ", "d", "o", "c", "u", "m", "e", "n", "t", ":", " ">>

\* a faulty variant, for comparison: the text is trimmed but not escaped
_sanitize_text_unescaped(text) ==
    IF text.type # "str" THEN <<>> ELSE Strip(text.val)

_sanitize_text(text) ==
    IF text.type # "str" THEN <<>> ELSE escape(Strip(text.val))

IsSentence(piece) == Len(Strip(piece)) > 10

_extract_sentences(text) ==
    IF Falsy(text) \/ text.type # "str" THEN <<>>
    ELSE LET kept == SelectSeq(ReSplit(text.val), IsSentence)
         IN  SubSeq([i \in 1..Len(kept) |-> Strip(kept[i])], 1, Len(kept))

\* len(query_words & sentence_words)
Overlap(query, sentence) ==
    Cardinality(ToSet(SplitWhitespace(Lower(query)))
                \cap ToSet(SplitWhitespace(Lower(sentence))))

\* a < b on (score, sentence) tuples
TupleLess(a, b) == a[1] < b[1] \/ (a[1] = b[1] /\ StrLess(a[2], b[2]))

\* a faulty variant, for comparison: list.sort() without reverse=True
RECURSIVE SortForward(_)
SortForward(s) ==
    IF s = <<>> THEN <<>>
    ELSE LET m == CHOOSE i \in 1..Len(s) : \A j \in 1..Len(s) : ~TupleLess(s[j], s[i])
         IN  <<s[m]>> \o SortForward(SubSeq(s, 1, m - 1) \o SubSeq(s, m + 1, Len(s)))

\* list.sort(reverse=True): equal tuples are the same tuple, so the order
\* among them is not observable
RECURSIVE SortReverse(_)
SortReverse(s) ==
    IF s = <<>> THEN <<>>
    ELSE LET m == CHOOSE i \in 1..Len(s) : \A j \in 1..Len(s) : ~TupleLess(s[i], s[j])
         IN  <<s[m]>> \o SortReverse(SubSeq(s, 1, m - 1) \o SubSeq(s, m + 1, Len(s)))

HasScore(t) == t[1] > 0

_find_relevant_content(query, context) ==
    IF query = <<>> \/ context = <<>> THEN <<>>
    ELSE LET sentences == _extract_sentences(Str(context))
             scored == [i \in 1..Len(sentences) |->
                           <<Overlap(query, sentences[i]), sentences[i]>>]
             scored_sentences ==
                 SortReverse(SelectSeq(SubSeq(scored, 1, Len(sentences)), HasScore))
             n == IF Len(scored_sentences) < 3 THEN Len(scored_sentences) ELSE 3
         IN  SubSeq([i \in 1..n |-> scored_sentences[i][2]], 1, n)

\* a faulty variant, for comparison: the how/process test comes before the what/define test
QuestionPrefixHowFirst(query_lower) ==
    IF Contains(query_lower, <<"h", "o", "w">>) \/ Contains(query_lower, <<"p", "r", "o", "c", "e", "s", "s">>)
    THEN PrefixHow
    ELSE IF Contains(query_lower, <<"w", "h", "a", "t">>) \/ Contains(query_lower, <<"d", "e", "f", "i", "n", "e">>)
    THEN PrefixWhat
    ELSE IF Contains(query_lower, <<"w", "h", "y">>) \/ Contains(query_lower, <<"r", "e", "a", "s", "o", "n">>)
    THEN PrefixWhy
    ELSE IF Contains(query_lower, <<"w", "h", "e", "n">>) \/ Contains(query_lower, <<"w", "h", "e", "r", "e">>)
            \/ Contains(query_lower, <<"w", "h", "o">>)
    THEN PrefixWhen
    ELSE PrefixOther

\* the if/elif chain on the question type
QuestionPrefix(query_lower) ==
    IF Contains(query_lower, <<"w", "h", "a", "t">>) \/ Contains(query_lower, <<"d", "e", "f", "i", "n", "e">>)
    THEN PrefixWhat
    ELSE IF Contains(query_lower, <<"h", "o", "w">>) \/ Contains(query_lower, <<"p", "r", "o", "c", "e", "s", "s">>)
    THEN PrefixHow
    ELSE IF Contains(query_lower, <<"w", "h", "y">>) \/ Contains(query_lower, <<"r", "e", "a", "s", "o", "n">>)
    THEN PrefixWhy
    ELSE IF Contains(query_lower, <<"w", "h", "e", "n">>) \/ Contains(query_lower, <<"w", "h", "e", "r", "e">>)
            \/ Contains(query_lower, <<"w", "h", "o">>)
    THEN PrefixWhen
    ELSE PrefixOther

_generate_local_answer(query, context) ==
    LET relevant_sentences == _find_relevant_content(query, context)
    IN  IF relevant_sentences = <<>> THEN NoRelevantMsg
        ELSE QuestionPrefix(Lower(query)) \o _sanitize_text(Str(relevant_sentences[1]))

\* what one generate_answer call did: the returned str, the number of
\* client.question_answering calls, and whether _generate_local_answer ran
Returned(text, calls, local) ==
    [result |-> text, remote_calls |-> calls, local |-> local]

NoClient == [present |-> FALSE, raises |-> FALSE, result |-> None]

RaisingClient == [present |-> TRUE, raises |-> TRUE, result |-> None]

ReturningClient(r) == [present |-> TRUE, raises |-> FALSE, result |-> r]

Dict(has, answer) == [type |-> "dict", has_answer |-> has, answer |-> answer]

NotADict == [type |-> "list", has_answer |-> FALSE, answer |-> None]

Truncate(context) ==
    IF Len(context) > MAX_CONTEXT_LENGTH
    THEN SubSeq(context, 1, MAX_CONTEXT_LENGTH) ELSE context

\* a faulty variant, for comparison: a remote call that raised is made once more before the fallback
generate_answer_retry(client, query, context) ==
    IF Falsy(query) \/ Falsy(context) THEN Returned(InvalidInputMsg, 0, FALSE)
    ELSE LET q == _sanitize_text(query)
             c == Truncate(context.val)
         IN  IF client.present
             THEN IF ~client.raises /\ client.result.type = "dict"
                     /\ client.result.has_answer
                  THEN Returned(_sanitize_text(client.result.answer), 1, FALSE)
                  ELSE Returned(_generate_local_answer(q, c),
                                IF client.raises THEN 2 ELSE 1, TRUE)
             ELSE Returned(_generate_local_answer(q, c), 0, TRUE)

\* a faulty variant, for comparison: an answer that sanitizes to nothing is replaced by the fallback's
generate_answer_skip_blank(client, query, context) ==
    IF Falsy(query) \/ Falsy(context) THEN Returned(InvalidInputMsg, 0, FALSE)
    ELSE LET q == _sanitize_text(query)
             c == Truncate(context.val)
         IN  IF client.present
             THEN IF ~client.raises /\ client.result.type = "dict"
                     /\ client.result.has_answer
                     /\ _sanitize_text(client.result.answer) # <<>>
                  THEN Returned(_sanitize_text(client.result.answer), 1, FALSE)
                  ELSE Returned(_generate_local_answer(q, c), 1, TRUE)
             ELSE Returned(_generate_local_answer(q, c), 0, TRUE)

generate_answer(client, query, context) ==
    IF Falsy(query) \/ Falsy(context) THEN Returned(InvalidInputMsg, 0, FALSE)
    ELSE LET q == _sanitize_text(query)
             c == Truncate(context.val)
         IN  IF client.present
             THEN IF ~client.raises /\ client.result.type = "dict"
                     /\ client.result.has_answer
                  THEN Returned(_sanitize_text(client.result.answer), 1, FALSE)
                  ELSE Returned(_generate_local_answer(q, c), 1, TRUE)
             ELSE Returned(_generate_local_answer(q, c), 0, TRUE)

(***************************************************************************)
(* State                                                                   *)
(***************************************************************************)
VARIABLES
    session_files,    \* dict: session id -> list of file paths
    session_content,  \* dict: session id -> extracted text
    disk,             \* the files in UPLOAD_FOLDER
    response,         \* the response of the last completed request
    last_good,        \* history: session id -> text of its last successful upload
    cleaned,          \* history: ids cleaned up and not uploaded to since
    thread,           \* the request each worker thread is handling, and where it is
    call,             \* one generate_answer call: its arguments and what it did
    rk                \* one ranker / composer call: its arguments and results

vars == <<session_files, session_content, disk, response, last_good,
          cleaned, thread, call, rk>>

web_vars == <<session_files, session_content, disk, response, last_good,
              cleaned, thread>>

(***************************************************************************)
(* Inputs of the answering pipeline                                        *)
(***************************************************************************)
MaxQueryWords == 2

MaxSentences == 2

MaxRankSentences == 4

\* all sequences over S of length at most n
SeqsUpTo(S, n) == UNION {[1..k -> S] : k \in 0..n}

RECURSIVE Join(_, _)
Join(parts, sep) ==
    IF Len(parts) = 0 THEN <<>>
    ELSE IF Len(parts) = 1 THEN parts[1]
    ELSE parts[1] \o sep \o Join(SubSeq(parts, 2, Len(parts)), sep)

\* the words joined by single blanks
Phrase(words) == Join(words, <<" ">>)

\* the sentences, each ended by a full stop
Document(sentences) ==
    IF Len(sentences) = 0 THEN <<>> ELSE Join(sentences, <<".", " ">>) \o <<".">>

Repeat(c, n) == SubSeq([i \in 1..n |-> c], 1, n)

AskWords == {<<"w", "h", "a", "t">>, <<"R", "&", "D">>, <<"B", "u", "d", "g", "e", "t">>}

AskSentences ==
    {<<"t", "h", "e", " ", "R", "&", "D", " ", "b", "u", "d", "g", "e", "t", " ", "g", "r", "e", "w">>, <<"a", " ", "<", "b", ">", "b", "o", "l", "d", "<", "/", "b", ">", " ", "b", "u", "d", "g", "e", "t", " ", "\"", "p", "l", "a", "n", "\"">>,
     <<"H", "i">>, <<"i", "t", "'", "s", " ", "w", "h", "a", "t", " ", "w", "e", " ", "d", "o">>}

\* longer than MAX_CONTEXT_LENGTH: the cut falls inside the filler, and the
\* last sentence lies beyond it
LongDocument ==
    <<"t", "h", "e", " ", "b", "u", "d", "g", "e", "t", " ", "i", "s", " ", "f", "i", "n", "e", ".", " ">> \o Repeat("x", MAX_CONTEXT_LENGTH)
        \o <<".", " ", "w", "h", "a", "t", " ", "t", "h", "e", " ", "R", "&", "D", " ", "t", "e", "a", "m", " ", "d", "o", "e", "s">>

MixedDocument == <<"B", "u", "d", "g", "e", "t", " ", "w", "a", "s", " ", "c", "u", "t", "!", "\n", "w", "h", "a", "t", " ", "n", "o", "w", "?", " ", "t", "h", "e", " ", "R", "&", "D", " ", "b", "u", "d", "g", "e", "t", " ", "g", "r", "e", "w", "\n">>

AskQueries ==
    {Str(Phrase(w)) : w \in SeqsUpTo(AskWords, MaxQueryWords)}
        \cup {Str(<<" ", " ">>), Str(<<" ", "w", "h", "a", "t", " ", "b", "u", "d", "g", "e", "t", "\n">>), None}

AskContexts ==
    {Str(Document(s)) : s \in SeqsUpTo(AskSentences, MaxSentences)}
        \cup {Str(LongDocument), Str(MixedDocument), None}

RemoteAnswers ==
    {Str(<<"P", "a", "r", "i", "s">>), Str(<<" ", "<", "i", ">", "R", "&", "D", "<", "/", "i", ">", " ", "'", "x", "'", " ">>), Str(<<>>), Str(<<" ", " ">>), None}

Clients ==
    {NoClient, RaisingClient, ReturningClient(NotADict),
     ReturningClient(Dict(FALSE, None))}
        \cup {ReturningClient(Dict(TRUE, a)) : a \in RemoteAnswers}

RankQueries == {<<"w", "h", "a", "t">>, <<"b", "u", "d", "g", "e", "t">>, <<"w", "h", "a", "t", " ", "b", "u", "d", "g", "e", "t">>, <<"B", "u", "d", "g", "e", "t", " ", " ", "W", "H", "A", "T", " ", "n", "o", "w">>, <<>>}

RankSentences ==
    {<<"w", "e", " ", "s", "h", "o", "w", " ", "w", "h", "a", "t", " ", "b", "u", "d", "g", "e", "t", " ", "m", "e", "a", "n", "s">>, <<"B", "u", "d", "g", "e", "t", " ", "g", "r", "e", "w", " ", "a", "g", "a", "i", "n">>,
     <<"w", "h", "a", "t", " ", "a", " ", "<", "b", ">", "p", "l", "a", "n", "<", "/", "b", ">">>, <<"n", "o", "t", "h", "i", "n", "g", " ", "h", "e", "r", "e", " ", "a", "t", " ", "a", "l", "l">>}

ComposeWords == {<<"w", "h", "a", "t">>, <<"S", "h", "o", "w">>, <<"w", "h", "y">>, <<"w", "h", "o">>, <<"b", "u", "d", "g", "e", "t">>}

ComposeContexts ==
    {<<"w", "e", " ", "s", "h", "o", "w", " ", "w", "h", "a", "t", " ", "b", "u", "d", "g", "e", "t", " ", "m", "e", "a", "n", "s", ".", " ", "w", "h", "o", " ", "k", "n", "o", "w", "s", " ", "w", "h", "y", " ", "b", "u", "d", "g", "e", "t", " ", "g", "r", "e", "w", ".">>,
     <<"W", "h", "y", " ", "&", " ", "w", "h", "o", " ", "<", "a", "s", "k", "e", "d", ">", "?", " ", "S", "h", "o", "w", " ", "m", "e", "!">>, <<"H", "i", ".", " ", "w", "h", "y", ".">>}

\* (query, context) pairs: few questions over many documents, and many
\* questions over few documents
LocalInputs ==
    (RankQueries
        \X {Document(s) : s \in SeqsUpTo(RankSentences, MaxRankSentences)})
    \cup
    ({Phrase(w) : w \in SeqsUpTo(ComposeWords, MaxQueryWords)} \X ComposeContexts)

(***************************************************************************)
(* The state before any request                                            *)
(***************************************************************************)
NoResponse == [op |-> "none", sid |-> <<>>, status |-> 0, error |-> "",
               text |-> <<>>, query |-> <<>>, qa_invoked |-> FALSE]

NoCall == [pc |-> "none", client |-> NoClient, query |-> None, context |-> None,
           ret |-> Returned(<<>>, 0, FALSE)]

NoRank == [pc |-> "none", query |-> <<>>, context |-> <<>>, relevant |-> <<>>,
           answer |-> <<>>]

(***************************************************************************)
(* Request handling: helpers                                               *)
(***************************************************************************)
MaxFiles == 2

ALLOWED_EXTENSIONS ==
    {<<".", "p", "d", "f">>, <<".", "j", "p", "g">>, <<".", "j", "p", "e", "g">>, <<".", "p", "n", "g">>, <<".", "g", "i", "f">>, <<".", "b", "m", "p">>, <<".", "t", "i", "f", "f">>}

Digits == <<"0", "1", "2", "3", "4", "5", "6", "7", "8", "9">>

\* the characters of the class [a-zA-Z0-9_-]
SessionIdChars ==
    ToSet(UpperCase) \cup ToSet(LowerCase) \cup ToSet(Digits) \cup {"_", "-"}

\* re.match(r'^[a-zA-Z0-9_-]{10,50}$', session_id) on a stripped id
ValidSessionId(session_id) ==
    /\ Len(session_id) >= 10
    /\ Len(session_id) <= 50
    /\ \A i \in 1..Len(session_id) : session_id[i] \in SessionIdChars

IsFilenameChar(c) == c \in SessionIdChars \cup {"."}

IsSlash(c) == c = "/"

\* werkzeug's secure_filename on an ASCII name: separators become blanks,
\* the words are joined by "_", characters outside [A-Za-z0-9_.-] are
\* dropped, and leading and trailing dots and underscores are stripped
secure_filename(filename) ==
    LET spaced == SubSeq([i \in 1..Len(filename) |->
                             IF IsSlash(filename[i]) THEN " " ELSE filename[i]],
                         1, Len(filename))
        joined == Join(SplitWhitespace(spaced), <<"_">>)
    IN  StripChars(SelectSeq(joined, IsFilenameChar), {".", "_"})

\* os.path.splitext(p)[1] for a name without separators
splitext(p) ==
    LET dots == {i \in 1..Len(p) : p[i] = "."}
    IN  IF dots = {} THEN <<>>
        ELSE IF \E j \in 1..(SetMax(dots) - 1) : p[j] # "."
        THEN SubSeq(p, SetMax(dots), Len(p))
        ELSE <<>>

\* d[k] = v
Put(d, k, v) == [x \in DOMAIN d \cup {k} |-> IF x = k THEN v ELSE d[x]]

\* a faulty variant, for comparison: the entry is read but not removed
PopNothing(d, k) == d

\* d.pop(k, None)
Pop(d, k) == [x \in DOMAIN d \ {k} |-> d[x]]

\* list.remove(x): the list without its first x (ValueError is passed over)
RemoveFirst(list, x) ==
    LET at == {i \in 1..Len(list) : list[i] = x}
    IN  IF at = {} THEN list
        ELSE SubSeq(list, 1, SetMin(at) - 1) \o SubSeq(list, SetMin(at) + 1, Len(list))

Reply(op, sid, status, error) ==
    [op |-> op, sid |-> sid, status |-> status, error |-> error, text |-> <<>>,
     query |-> <<>>, qa_invoked |-> FALSE]

(***************************************************************************)
(* Text extraction: what the PDF and OCR libraries produce is the          *)
(* environment's choice                                                    *)
(***************************************************************************)
NoTextMsg == <<"N", "o", " ", "t", "e", "x", "t", " ", "c", "o", "u", "l", "d", " ", "b", "e", " ", "e", "x", "t", "r", "a", "c", "t", "e", "d">>

ExtractionFailedMsg == <<"T", "e", "x", "t", " ", "e", "x", "t", "r", "a", "c", "t", "i", "o", "n", " ", "f", "a", "i", "l", "e", "d">>

ImageFailedMsg == <<"I", "m", "a", "g", "e", " ", "p", "r", "o", "c", "e", "s", "s", "i", "n", "g", " ", "f", "a", "i", "l", "e", "d">>

Sentinels == {NoTextMsg, ExtractionFailedMsg, ImageFailedMsg}

\* extracted text, or a failure string from the OCR fallback
PdfOutcomes == {<<"t", "h", "e", " ", "b", "u", "d", "g", "e", "t", " ", "g", "r", "e", "w", " ", "a", " ", "l", "o", "t", ".">>, ExtractionFailedMsg}

\* whatever pytesseract reads, possibly nothing
ImageOutcomes == {<<"w", "h", "a", "t", " ", "a", " ", "p", "l", "a", "n", "!", " ", "i", "t", " ", "w", "o", "r", "k", "s", " ", "w", "e", "l", "l">>, <<>>}

Raised == [raised |-> TRUE, text |-> <<>>]

Extracted(text) == [raised |-> FALSE, text |-> text]

secure_extract_pdf_text(pdf_path, files, outcome) ==
    IF pdf_path \notin files THEN Raised ELSE Extracted(outcome)

secure_extract_image_text(image_path, files, outcome) ==
    IF image_path \notin files THEN Raised ELSE Extracted(outcome)

ExtractOutcomes(file_ext) ==
    IF file_ext = <<".", "p", "d", "f">> THEN PdfOutcomes ELSE ImageOutcomes

extract_text(file_ext, file_path, files, outcome) ==
    IF file_ext = <<".", "p", "d", "f">>
    THEN secure_extract_pdf_text(file_path, files, outcome)
    ELSE secure_extract_image_text(file_path, files, outcome)

(***************************************************************************)
(* Requests, one at a time: each action is one whole handler               *)
(***************************************************************************)
SessionOne == <<"s", "e", "s", "s", "i", "o", "n", "-", "0", "1">>

SessionTwoRaw == <<" ", "s", "e", "s", "s", "i", "o", "n", "-", "0", "2", "\n">>

PdfName == <<"n", "o", "t", "e", "s", ".", "p", "d", "f">>

ImageName == <<"m", "y", " ", "s", "c", "a", "n", ".", "P", "N", "G">>

UploadRequest(has_file, filename, session_id) ==
    [has_file |-> has_file, filename |-> filename, session_id |-> session_id]

\* one request per validation failure, and the well-formed ones
UploadRequests ==
    {UploadRequest(FALSE, PdfName, SessionOne),
     UploadRequest(TRUE, <<>>, SessionOne),
     UploadRequest(TRUE, PdfName, <<"s", "h", "o", "r", "t">>),
     UploadRequest(TRUE, PdfName, <<>>),
     UploadRequest(TRUE, <<".", ".", "/">>, SessionOne),
     UploadRequest(TRUE, <<"t", "o", "o", "l", ".", "e", "x", "e">>, SessionOne)}
    \cup {UploadRequest(TRUE, f, s) :
            f \in {PdfName, ImageName}, s \in {SessionOne, SessionTwoRaw}}

JsonRequest(valid_body, query, session_id) ==
    [valid_body |-> valid_body, query |-> query, session_id |-> session_id]

ChatRequests ==
    {JsonRequest(FALSE, <<>>, <<>>)}
    \cup {JsonRequest(TRUE, q, s) :
            q \in {<<" ", " ">>, <<" ", "w", "h", "a", "t", " ", "b", "u", "d", "g", "e", "t", " ">>},
            s \in {SessionOne, SessionTwoRaw, <<>>}}

CleanupRequests ==
    {JsonRequest(FALSE, <<>>, <<>>)}
    \cup {JsonRequest(TRUE, <<>>, s) : s \in {SessionOne, SessionTwoRaw, <<>>}}

ChatClients == {NoClient, ReturningClient(Dict(TRUE, Str(<<"P", "a", "r", "i", "s">>)))}

\* f"{session_id}_{timestamp}_{original_filename}": the requests of one run
\* fall within one second, so the timestamp is the same in every path
FilePath(session_id, original_filename) == <<session_id, original_filename>>

\* what upload_file derives from the request before it touches any state
UploadForm(req) ==
    LET session_id == Strip(req.session_id)
        original_filename == secure_filename(req.filename)
    IN  [has_file |-> req.has_file,
         filename |-> req.filename,
         session_id |-> session_id,
         original_filename |-> original_filename,
         file_ext |-> splitext(Lower(original_filename)),
         file_path |-> FilePath(session_id, original_filename)]

UploadForms == {UploadForm(req) : req \in UploadRequests}

\* the stripped fields of a JSON body
JsonForm(req) ==
    [valid_body |-> req.valid_body, query |-> Strip(req.query),
     session_id |-> Strip(req.session_id)]

ChatForms == {JsonForm(req) : req \in ChatRequests}

CleanupForms == {JsonForm(req) : req \in CleanupRequests}

\* qa_system.generate_answer on every (client, query, context) a chat
\* request of the model can pass it
ChatAnswer ==
    [client \in ChatClients,
     query \in {f.query : f \in ChatForms},
     context \in PdfOutcomes \cup ImageOutcomes |->
        generate_answer(client, Str(query), Str(context)).result]

upload_file(form) ==
    LET session_id == form.session_id
        file_path == form.file_path
        reject(msg) ==
            /\ response' = Reply("upload", <<>>, 400, msg)
            /\ UNCHANGED <<session_files, session_content, disk, last_good, cleaned>>
    IN  IF ~form.has_file THEN reject("No file uploaded")
        ELSE IF form.filename = <<>> THEN reject("No file selected")
        ELSE IF session_id = <<>> \/ ~ValidSessionId(session_id)
        THEN reject("Invalid session ID")
        ELSE IF form.original_filename = <<>> THEN reject("Invalid filename")
        ELSE IF form.file_ext \notin ALLOWED_EXTENSIONS
        THEN reject("File type not allowed")
        ELSE
          LET saved == disk \cup {file_path}
              fresh == session_id \notin DOMAIN session_files
              files0 == IF fresh THEN Put(session_files, session_id, <<>>)
                        ELSE session_files
              content0 == IF fresh THEN Put(session_content, session_id, <<>>)
                          ELSE session_content
              files1 == Put(files0, session_id, Append(files0[session_id], file_path))
          IN  /\ Len(files0[session_id]) < MaxFiles
              /\ cleaned' = cleaned \ {session_id}
              /\ \E outcome \in ExtractOutcomes(form.file_ext) :
                   LET got == extract_text(form.file_ext, file_path, saved, outcome)
                   IN  IF got.raised
                       THEN \* os.remove raises OSError when the file is gone,
                            \* and the list is then left as it is
                            /\ disk' = saved \ {file_path}
                            /\ session_files' =
                                  IF file_path \in saved
                                  THEN Put(files1, session_id,
                                           RemoveFirst(files1[session_id], file_path))
                                  ELSE files1
                            /\ session_content' = content0
                            /\ response' = Reply("upload", session_id, 500,
                                                 "File processing failed")
                            /\ UNCHANGED last_good
                       ELSE /\ disk' = saved
                            /\ session_files' = files1
                            /\ session_content' = Put(content0, session_id, got.text)
                            /\ response' = [Reply("upload", session_id, 200, "")
                                              EXCEPT !.text = escape(got.text)]
                            /\ last_good' =
                                  IF got.text \in Sentinels THEN last_good
                                  ELSE Put(last_good, session_id, got.text)

Upload ==
    \E form \in UploadForms :
        /\ upload_file(form)
        /\ UNCHANGED <<thread, call, rk>>

cleanup_files(form) ==
    LET session_id == form.session_id
    IN  IF ~form.valid_body
        THEN /\ response' = Reply("cleanup", <<>>, 400, "Invalid request")
             /\ UNCHANGED <<session_files, session_content, disk, last_good, cleaned>>
        ELSE IF session_id = <<>> \/ session_id \notin DOMAIN session_files
        THEN /\ response' = Reply("cleanup", session_id, 200, "")
             /\ cleaned' = IF session_id = <<>> THEN cleaned
                           ELSE cleaned \cup {session_id}
             /\ UNCHANGED <<session_files, session_content, disk, last_good>>
        ELSE /\ disk' = disk \ ToSet(session_files[session_id])
             /\ session_files' = Pop(session_files, session_id)
             /\ session_content' = Pop(session_content, session_id)
             /\ response' = Reply("cleanup", session_id, 200, "")
             /\ last_good' = Pop(last_good, session_id)
             /\ cleaned' = cleaned \cup {session_id}

Cleanup ==
    \E form \in CleanupForms :
        /\ cleanup_files(form)
        /\ UNCHANGED <<thread, call, rk>>

chat(form) ==
    LET query == form.query
        session_id == form.session_id
        asked(status, error) ==
            [Reply("chat", session_id, status, error) EXCEPT !.query = query]
    IN  IF ~form.valid_body
        THEN response' = Reply("chat", <<>>, 400, "Invalid request")
        ELSE IF query = <<>> THEN response' = asked(400, "Query required")
        ELSE IF session_id = <<>> \/ session_id \notin DOMAIN session_content
        THEN response' = asked(400, "No document available")
        ELSE IF Strip(session_content[session_id]) = <<>>
        THEN response' = asked(400, "Document content is empty")
        ELSE \E client \in ChatClients :
               response' =
                  [asked(200, "") EXCEPT
                     !.text = ChatAnswer[client, query, session_content[session_id]],
                     !.qa_invoked = TRUE]

Chat ==
    \E form \in ChatForms :
        /\ chat(form)
        /\ UNCHANGED <<session_files, session_content, disk, last_good,
                       cleaned, thread, call, rk>>

EmptyDict == [x \in {} |-> <<>>]

Threads == {1, 2}

IdleThread == [pc |-> "idle", op |-> "none", sid |-> <<>>, path |-> <<>>,
               ext |-> <<>>, text |-> <<>>, items |-> <<>>, pos |-> 0,
               attached |-> FALSE]

WebInit ==
    /\ session_files = EmptyDict
    /\ session_content = EmptyDict
    /\ disk = {}
    /\ response = NoResponse
    /\ last_good = EmptyDict
    /\ cleaned = {}
    /\ thread = [t \in Threads |-> IdleThread]

Init == WebInit /\ call = NoCall /\ rk = NoRank

Next == Upload \/ Chat \/ Cleanup

Spec == Init /\ [][Next]_vars

(***************************************************************************)
(* Concurrent upload and cleanup requests: each worker thread runs one     *)
(* handler, one statement on the shared maps at a time                     *)
(***************************************************************************)
\* the racing requests are those of one session, and one request of each
\* kind that is turned away
ConcUploadForms ==
    {UploadForm(req) :
        req \in {UploadRequest(TRUE, PdfName, SessionOne),
                 UploadRequest(TRUE, ImageName, SessionOne),
                 UploadRequest(TRUE, PdfName, <<>>)}}

ConcCleanupForms ==
    {JsonForm(req) :
        req \in {JsonRequest(TRUE, <<>>, SessionOne),
                 JsonRequest(FALSE, <<>>, <<>>)}}

Working(t, pc) == thread[t].pc = pc

Goto(t, pc) == thread' = [thread EXCEPT ![t].pc = pc]

Finish(t) == thread' = [thread EXCEPT ![t] = IdleThread]

\* a for loop over session_files[sid] holds the list object: it sees what is
\* appended to it, and keeps it when the dict entry is popped or replaced
FileList(t) ==
    IF thread[t].attached THEN session_files[thread[t].sid] ELSE thread[t].items

\* the threads after the dict let go of the list object of sid
Detached(sid) ==
    [u \in Threads |->
        IF thread[u].attached /\ thread[u].sid = sid
        THEN [thread[u] EXCEPT !.attached = FALSE, !.items = session_files[sid]]
        ELSE thread[u]]

\* the uploads for sid that have not appended their file yet
Pending(sid) ==
    {u \in Threads : /\ thread[u].op = "upload"
                     /\ thread[u].sid = sid
                     /\ thread[u].pc \in {"save", "check", "new_files",
                                          "new_content", "append"}}

Listed(sid) == IF sid \in DOMAIN session_files THEN Len(session_files[sid]) ELSE 0

\* lines 291-318 touch no shared state
UploadBegin(t) ==
    /\ Working(t, "idle")
    /\ \E form \in ConcUploadForms :
         LET reject(msg) == /\ response' = Reply("upload", <<>>, 400, msg)
                            /\ UNCHANGED thread
         IN  IF ~form.has_file THEN reject("No file uploaded")
             ELSE IF form.filename = <<>> THEN reject("No file selected")
             ELSE IF form.session_id = <<>> \/ ~ValidSessionId(form.session_id)
             THEN reject("Invalid session ID")
             ELSE IF form.original_filename = <<>> THEN reject("Invalid filename")
             ELSE IF form.file_ext \notin ALLOWED_EXTENSIONS
             THEN reject("File type not allowed")
             ELSE /\ Listed(form.session_id)
                        + Cardinality(Pending(form.session_id)) < MaxFiles
                  /\ thread' = [thread EXCEPT ![t] =
                        [IdleThread EXCEPT !.pc = "save", !.op = "upload",
                                           !.sid = form.session_id,
                                           !.path = form.file_path,
                                           !.ext = form.file_ext]]
                  /\ UNCHANGED response
    /\ UNCHANGED <<session_files, session_content, disk, last_good, cleaned, call, rk>>

\* file.save(file_path)
UploadSave(t) ==
    /\ Working(t, "save")
    /\ disk' = disk \cup {thread[t].path}
    /\ Goto(t, "check")
    /\ UNCHANGED <<session_files, session_content, response, last_good, cleaned,
                   call, rk>>

\* if session_id not in session_files
UploadCheck(t) ==
    /\ Working(t, "check")
    /\ Goto(t, IF thread[t].sid \notin DOMAIN session_files THEN "new_files"
               ELSE "append")
    /\ UNCHANGED <<session_files, session_content, disk, response, last_good,
                   cleaned, call, rk>>

\* session_files[session_id] = []
UploadNewFiles(t) ==
    /\ Working(t, "new_files")
    /\ session_files' = Put(session_files, thread[t].sid, <<>>)
    /\ thread' = [(IF thread[t].sid \in DOMAIN session_files
                   THEN Detached(thread[t].sid) ELSE thread)
                    EXCEPT ![t].pc = "new_content"]
    /\ UNCHANGED <<session_content, disk, response, last_good, cleaned, call, rk>>

\* session_content[session_id] = ''
UploadNewContent(t) ==
    /\ Working(t, "new_content")
    /\ session_content' = Put(session_content, thread[t].sid, <<>>)
    /\ Goto(t, "append")
    /\ UNCHANGED <<session_files, disk, response, last_good, cleaned, call, rk>>

\* session_files[session_id].append(file_path); a KeyError reaches the
\* outer handler
UploadAppend(t) ==
    /\ Working(t, "append")
    /\ IF thread[t].sid \in DOMAIN session_files
       THEN /\ session_files' =
                  Put(session_files, thread[t].sid,
                      Append(session_files[thread[t].sid], thread[t].path))
            /\ Goto(t, "extract")
            /\ UNCHANGED response
       ELSE /\ response' = Reply("upload", thread[t].sid, 500, "Upload failed")
            /\ Finish(t)
            /\ UNCHANGED session_files
    /\ UNCHANGED <<session_content, disk, last_good, cleaned, call, rk>>

\* text = secure_extract_pdf_text(file_path), or the image extractor
UploadExtract(t) ==
    /\ Working(t, "extract")
    /\ \E outcome \in ExtractOutcomes(thread[t].ext) :
         LET got == extract_text(thread[t].ext, thread[t].path, disk, outcome)
         IN  thread' = [thread EXCEPT
                          ![t].pc = IF got.raised THEN "remove_failed" ELSE "store",
                          ![t].text = got.text]
    /\ UNCHANGED <<session_files, session_content, disk, response, last_good,
                   cleaned, call, rk>>

\* session_content[session_id] = text, and the response
UploadStore(t) ==
    /\ Working(t, "store")
    /\ session_content' = Put(session_content, thread[t].sid, thread[t].text)
    /\ response' = [Reply("upload", thread[t].sid, 200, "")
                      EXCEPT !.text = escape(thread[t].text)]
    /\ Finish(t)
    /\ UNCHANGED <<session_files, disk, last_good, cleaned, call, rk>>

\* os.remove(file_path) in the handler of a failed extraction: an OSError
\* skips the list and is passed over
UploadRemoveFailed(t) ==
    /\ Working(t, "remove_failed")
    /\ IF thread[t].path \in disk
       THEN /\ disk' = disk \ {thread[t].path}
            /\ Goto(t, "unlist")
            /\ UNCHANGED response
       ELSE /\ response' = Reply("upload", thread[t].sid, 500,
                                 "File processing failed")
            /\ Finish(t)
            /\ UNCHANGED disk
    /\ UNCHANGED <<session_files, session_content, last_good, cleaned, call, rk>>

\* session_files[session_id].remove(file_path); a KeyError reaches the
\* outer handler
UploadUnlist(t) ==
    /\ Working(t, "unlist")
    /\ IF thread[t].sid \in DOMAIN session_files
       THEN /\ session_files' =
                  Put(session_files, thread[t].sid,
                      RemoveFirst(session_files[thread[t].sid], thread[t].path))
            /\ response' = Reply("upload", thread[t].sid, 500,
                                 "File processing failed")
       ELSE /\ response' = Reply("upload", thread[t].sid, 500, "Upload failed")
            /\ UNCHANGED session_files
    /\ Finish(t)
    /\ UNCHANGED <<session_content, disk, last_good, cleaned, call, rk>>

\* lines 367-371 touch no shared state
CleanupBegin(t) ==
    /\ Working(t, "idle")
    /\ \E form \in ConcCleanupForms :
         IF ~form.valid_body
         THEN /\ response' = Reply("cleanup", <<>>, 400, "Invalid request")
              /\ UNCHANGED thread
         ELSE /\ thread' = [thread EXCEPT ![t] =
                    [IdleThread EXCEPT !.pc = "c_check", !.op = "cleanup",
                                       !.sid = form.session_id]]
              /\ UNCHANGED response
    /\ UNCHANGED <<session_files, session_content, disk, last_good, cleaned, call, rk>>

\* if not session_id or session_id not in session_files: return success
CleanupCheck(t) ==
    /\ Working(t, "c_check")
    /\ IF thread[t].sid = <<>> \/ thread[t].sid \notin DOMAIN session_files
       THEN /\ response' = Reply("cleanup", thread[t].sid, 200, "")
            /\ Finish(t)
       ELSE /\ Goto(t, "c_iter")
            /\ UNCHANGED response
    /\ UNCHANGED <<session_files, session_content, disk, last_good, cleaned, call, rk>>

\* for file_path in session_files[session_id]: the lookup; a KeyError
\* reaches the outer handler
CleanupIter(t) ==
    /\ Working(t, "c_iter")
    /\ IF thread[t].sid \in DOMAIN session_files
       THEN /\ thread' = [thread EXCEPT ![t].pc = "c_loop", ![t].pos = 1,
                                        ![t].attached = TRUE]
            /\ UNCHANGED response
       ELSE /\ response' = Reply("cleanup", thread[t].sid, 500, "Cleanup failed")
            /\ Finish(t)
    /\ UNCHANGED <<session_files, session_content, disk, last_good, cleaned, call, rk>>

\* one turn of the loop: the file is removed if it exists (an OSError is
\* logged), or the loop ends
CleanupLoop(t) ==
    /\ Working(t, "c_loop")
    /\ IF thread[t].pos <= Len(FileList(t))
       THEN /\ disk' = disk \ {FileList(t)[thread[t].pos]}
            /\ thread' = [thread EXCEPT ![t].pos = thread[t].pos + 1]
       ELSE /\ thread' = [thread EXCEPT ![t].pc = "c_pop_files", ![t].pos = 0,
                                        ![t].attached = FALSE, ![t].items = <<>>]
            /\ UNCHANGED disk
    /\ UNCHANGED <<session_files, session_content, response, last_good, cleaned,
                   call, rk>>

\* session_files.pop(session_id, None)
CleanupPopFiles(t) ==
    /\ Working(t, "c_pop_files")
    /\ session_files' = Pop(session_files, thread[t].sid)
    /\ thread' = [(IF thread[t].sid \in DOMAIN session_files
                   THEN Detached(thread[t].sid) ELSE thread)
                    EXCEPT ![t].pc = "c_pop_content"]
    /\ UNCHANGED <<session_content, disk, response, last_good, cleaned, call, rk>>

\* session_content.pop(session_id, None), and the response
CleanupPopContent(t) ==
    /\ Working(t, "c_pop_content")
    /\ session_content' = Pop(session_content, thread[t].sid)
    /\ response' = Reply("cleanup", thread[t].sid, 200, "")
    /\ Finish(t)
    /\ UNCHANGED <<session_files, disk, last_good, cleaned, call, rk>>

NextConc ==
    \E t \in Threads :
        \/ UploadBegin(t)
        \/ UploadSave(t)
        \/ UploadCheck(t)
        \/ UploadNewFiles(t)
        \/ UploadNewContent(t)
        \/ UploadAppend(t)
        \/ UploadExtract(t)
        \/ UploadStore(t)
        \/ UploadRemoveFailed(t)
        \/ UploadUnlist(t)
        \/ CleanupBegin(t)
        \/ CleanupCheck(t)
        \/ CleanupIter(t)
        \/ CleanupLoop(t)
        \/ CleanupPopFiles(t)
        \/ CleanupPopContent(t)

SpecConc == Init /\ [][NextConc]_vars

(***************************************************************************)
(* The answering pipeline on its own: Init draws the arguments             *)
(***************************************************************************)
GenerateAnswer ==
    /\ call.pc = "start"
    /\ call' = [call EXCEPT !.pc = "done",
                            !.ret = generate_answer(call.client, call.query,
                                                    call.context)]
    /\ UNCHANGED <<web_vars, rk>>

InitQA ==
    /\ WebInit
    /\ rk = NoRank
    /\ \E client \in Clients, query \in AskQueries, context \in AskContexts :
          call = [pc |-> "start", client |-> client, query |-> query,
                  context |-> context, ret |-> Returned(<<>>, 0, FALSE)]

SpecQA == InitQA /\ [][GenerateAnswer]_vars

FindRelevantContent ==
    /\ rk.pc = "start"
    /\ rk' = [rk EXCEPT !.pc = "ranked",
                        !.relevant = _find_relevant_content(rk.query, rk.context)]
    /\ UNCHANGED <<web_vars, call>>

GenerateLocalAnswer ==
    /\ rk.pc = "ranked"
    /\ rk' = [rk EXCEPT !.pc = "answered",
                        !.answer = _generate_local_answer(rk.query, rk.context)]
    /\ UNCHANGED <<web_vars, call>>

InitLocal ==
    /\ WebInit
    /\ call = NoCall
    /\ \E input \in LocalInputs :
          rk = [pc |-> "start", query |-> input[1], context |-> input[2],
                relevant |-> <<>>, answer |-> <<>>]

NextLocal == FindRelevantContent \/ GenerateLocalAnswer

SpecLocal == InitLocal /\ [][NextLocal]_vars

(***************************************************************************)
(* Properties                                                              *)
(***************************************************************************)
Answered == call.pc = "done"

ValidInputs == ~Falsy(call.query) /\ ~Falsy(call.context)

\* the remote call returned a dict that has an 'answer'
RemoteAnswered(client) ==
    /\ client.present
    /\ ~client.raises
    /\ client.result.type = "dict"
    /\ client.result.has_answer

Prefixes == {PrefixWhat, PrefixHow, PrefixWhy, PrefixWhen, PrefixOther}

EntityNames == {Entity(c) : c \in MarkupChars}

\* no markup character stands in s except the "&" that opens an entity
NoRawMarkup(s) ==
    \A i \in 1..Len(s) :
        /\ s[i] \notin {"<", ">", "'", "\""}
        /\ s[i] = "&" =>
              \E e \in EntityNames :
                  /\ i + Len(e) - 1 <= Len(s)
                  /\ SubSeq(s, i, i + Len(e) - 1) = e

StartsWith(s, p) == Len(s) >= Len(p) /\ SubSeq(s, 1, Len(p)) = p

\* C1: after any sequence of uploads, session_content[id] is the text of the
\* last successful upload for id, and is absent when there was none: an
\* upload that fails (its extraction returned a failure string, or raised)
\* leaves it as it was.
C1_ContextIsLastSuccessfulUpload ==
    \A id \in DOMAIN session_content \cup DOMAIN last_good :
        /\ id \in DOMAIN last_good
        /\ id \in DOMAIN session_content
        /\ session_content[id] = last_good[id]

\* C2: for a non-empty query and a non-empty context, whatever the remote
\* client does, generate_answer returns a non-empty string.
C2_AnswerNeverEmpty ==
    (Answered /\ ValidInputs) => call.ret.result # <<>>

\* C3: with non-empty inputs, the local fallback runs, and supplies the
\* result, exactly when the remote path gave no dict with an 'answer'
\* (no client, a raising call, a result of another shape); otherwise the
\* sanitized remote answer is returned and the fallback is not run.
C3_FallbackIffNoRemoteAnswer ==
    (Answered /\ ValidInputs) =>
        /\ call.ret.local <=> ~RemoteAnswered(call.client)
        /\ call.ret.local =>
              call.ret.result =
                 _generate_local_answer(_sanitize_text(call.query),
                                        Truncate(call.context.val))
        /\ ~call.ret.local =>
              call.ret.result = _sanitize_text(call.client.result.answer)

C3_Witness ==
    /\ Answered /\ ValidInputs
    /\ call.client.raises
    /\ call.ret.local
    /\ StartsWith(call.ret.result, PrefixWhat)

\* C4: one generate_answer call makes no remote call when the query or the
\* context is empty or missing (it then returns 'Invalid input provided') or
\* when there is no client, and exactly one otherwise: a failed call is not
\* retried.
C4_RemoteCallCount ==
    Answered =>
        /\ call.ret.remote_calls =
              IF ValidInputs /\ call.client.present THEN 1 ELSE 0
        /\ ~ValidInputs => call.ret.result = InvalidInputMsg

C4_Witness ==
    /\ Answered /\ ValidInputs
    /\ call.client.raises
    /\ call.ret.remote_calls = 1

\* the sentences of the truncated context that share a word with the query
\* as the caller passed it
OverlappingSentences ==
    LET sentences == _extract_sentences(Str(Truncate(call.context.val)))
    IN  {s \in ToSet(sentences) : Overlap(call.query.val, s) >= 1}

\* C5: with no client, when a sentence of the truncated context shares a
\* word with the query the caller passed in, the result is not the no-match
\* message and contains the sanitized text of such a sentence.
C5_OverlappingSentenceAnswered ==
    (Answered /\ ~call.client.present /\ OverlappingSentences # {}) =>
        /\ call.ret.result # NoRelevantMsg
        /\ \E s \in OverlappingSentences :
              Contains(call.ret.result, _sanitize_text(Str(s)))

\* C6: _find_relevant_content returns the top sentences by overlap: at most
\* 3, every scoring sentence when there are fewer, each a sentence of the
\* context that shares a word with the query, in non-increasing order of
\* score, and no sentence left out scores more than one that is in.
C6_TopSentencesByOverlap ==
    rk.pc # "start" =>
        LET sentences == _extract_sentences(Str(rk.context))
            scoring == {i \in 1..Len(sentences) : Overlap(rk.query, sentences[i]) >= 1}
            r == rk.relevant
        IN  /\ Len(r) <= 3
            /\ Len(r) = IF Cardinality(scoring) < 3 THEN Cardinality(scoring) ELSE 3
            /\ \A i \in 1..Len(r) :
                  /\ r[i] \in ToSet(sentences)
                  /\ Overlap(rk.query, r[i]) >= 1
            /\ \A i \in 1..(Len(r) - 1) :
                  Overlap(rk.query, r[i]) >= Overlap(rk.query, r[i + 1])
            /\ \A s \in ToSet(sentences) \ ToSet(r) :
                  \A i \in 1..Len(r) : Overlap(rk.query, s) <= Overlap(rk.query, r[i])

C6_Witness ==
    /\ rk.pc # "start"
    /\ Len(rk.relevant) = 3
    /\ Overlap(rk.query, rk.relevant[1]) > Overlap(rk.query, rk.relevant[3])
    /\ \E s \in ToSet(_extract_sentences(Str(rk.context))) \ ToSet(rk.relevant) :
          Overlap(rk.query, s) >= 1

\* the categories of the composer in their order, as data
Categories ==
    << [keywords |-> {<<"w", "h", "a", "t">>, <<"d", "e", "f", "i", "n", "e">>}, prefix |-> PrefixWhat],
       [keywords |-> {<<"h", "o", "w">>, <<"p", "r", "o", "c", "e", "s", "s">>}, prefix |-> PrefixHow],
       [keywords |-> {<<"w", "h", "y">>, <<"r", "e", "a", "s", "o", "n">>}, prefix |-> PrefixWhy],
       [keywords |-> {<<"w", "h", "e", "n">>, <<"w", "h", "e", "r", "e">>, <<"w", "h", "o">>}, prefix |-> PrefixWhen] >>

Matches(k, query_lower) ==
    \E w \in Categories[k].keywords : Contains(query_lower, w)

\* C7: when the ranker returns a sentence, the answer is the prefix of the
\* first category, in the fixed order, that has a keyword occurring in the
\* lower-cased query (the default prefix when none has), followed by the
\* sanitized top sentence.
C7_FirstMatchingCategoryWins ==
    (rk.pc = "answered" /\ rk.relevant # <<>>) =>
        LET q == Lower(rk.query)
            hit == {k \in 1..Len(Categories) : Matches(k, q)}
            prefix == IF hit = {} THEN PrefixOther ELSE Categories[SetMin(hit)].prefix
        IN  rk.answer = prefix \o escape(Strip(rk.relevant[1]))

C7_Witness ==
    /\ rk.pc = "answered"
    /\ rk.relevant # <<>>
    /\ Matches(1, Lower(rk.query))
    /\ Matches(2, Lower(rk.query))
    /\ StartsWith(rk.answer, PrefixWhat)

\* C8: every string generate_answer returns is sanitized: a fixed message,
\* a fixed prefix followed by the escaped top sentence, or the escaped
\* remote answer (nothing, for an answer that is no string); none of
\* < > & ' " from the document or from the remote answer stands in it
\* unescaped.
C8_ResultIsSanitized ==
    Answered =>
        LET r == call.ret.result
            top == _find_relevant_content(_sanitize_text(call.query),
                                          Truncate(call.context.val))
            answer == call.client.result.answer
        IN  /\ NoRawMarkup(r)
            /\ \/ r \in {InvalidInputMsg, NoRelevantMsg}
               \/ /\ top # <<>>
                  /\ \E p \in Prefixes : r = p \o escape(Strip(top[1]))
               \/ /\ RemoteAnswered(call.client)
                  /\ r = IF answer.type = "str" THEN escape(Strip(answer.val))
                         ELSE <<>>

C8_Witness ==
    /\ Answered
    /\ call.ret.local
    /\ Contains(call.ret.result, <<"&", "l", "t", ";", "b", "&", "g", "t", ";", "b", "o", "l", "d", "&", "l", "t", ";", "/", "b", "&", "g", "t", ";">>)
    /\ Contains(call.context.val, <<"<", "b", ">", "b", "o", "l", "d", "<", "/", "b", ">">>)

\* d without its entry for k
Without(d, k) == [x \in DOMAIN d \ {k} |-> d[x]]

\* C9 (as amended): a cleanup request for a session id deletes that id's
\* Document Context and file list and leaves every other session's
\* unchanged; from then until the next upload for that id, a chat request
\* for it is rejected, with 'Query required' when its query is empty and
\* with 'No document available' otherwise, and the answering service is not
\* invoked.
C9_CleanupIsolatesSession ==
    /\ [][(response'.op = "cleanup" /\ response'.status = 200) =>
             /\ session_content' = Without(session_content, response'.sid)
             /\ session_files' = Without(session_files, response'.sid)]_vars
    /\ [](\A id \in cleaned :
             /\ id \notin DOMAIN session_content
             /\ id \notin DOMAIN session_files
             /\ (response.op = "chat" /\ response.sid = id) =>
                   /\ response.status = 400
                   /\ ~response.qa_invoked
                   /\ response.error =
                         IF response.query = <<>> THEN "Query required"
                         ELSE "No document available")

C9_Witness ==
    /\ response.op = "chat"
    /\ response.sid \in cleaned
    /\ response.error = "No document available"
    /\ \E other \in DOMAIN session_content :
          other # response.sid /\ session_content[other] # <<>>

\* C9, as the specification words it: every chat request for a cleaned-up session id is
\* rejected with 'No document available'.
C9_EveryChatGetsNoDocument ==
    (response.op = "chat" /\ response.sid \in cleaned) =>
        /\ response.error = "No document available"
        /\ ~response.qa_invoked

Quiescent == \A t \in Threads : thread[t].pc = "idle"

\* C10: under any interleaving of the steps of concurrent upload and
\* cleanup requests, a session id is a key of session_content exactly when
\* it is a key of session_files, so that no Document Context is left behind
\* for which a cleanup finds no file list; stated for the states in which
\* no request is in progress.
C10_KeysAgree ==
    Quiescent => DOMAIN session_content = DOMAIN session_files

====
